---- MODULE Spec2Model ----
(***************************************************************************)
(* Model of the Octopus ticket table (src/Core/Table.cpp, Table.h,         *)
(* MathUtils.h, MathUtils.cpp).                                            *)
(*                                                                         *)
(* Characters are ASCII codes, strings are sequences of codes, so that     *)
(* std::tolower / std::toupper / std::isalpha and the base-36 codec are    *)
(* computed and not assumed.  A timestamp (last_scan_date) is an opaque    *)
(* string.  Every operation of Table is a pure operator on a table record  *)
(* [entries, generation] that returns a result code with the table it      *)
(* leaves behind; the actions apply these operators to the state.          *)
(***************************************************************************)
EXTENDS Integers, Sequences, FiniteSets, TLC

\* ------------------------------------------------------------------ bounds

\* Highest id generate_ticket_id draws (36^5 in the program).
MaxTicketId == 1

\* Largest value of the generation counter (2^64 - 1 in the program).
MaxGeneration == 4

\* Largest value of scan_count (2^32 - 1 in the program).
MaxScanCount == 1

\* Largest value of the integer transform_from_base_36 decodes into
\* (2^64 - 1 for a TicketID in the program).
MaxDecoded == 100

\* Longest string handed to transform_from_base_36.
MaxLen == 3

\* Longest name handed to format_entry.
MaxNameLen == 7

\* Most entries listed in a document handed to create_from_file.
MaxListed == 2

\* Highest id generate_ticket_id draws when it is executed statement by
\* statement (36^5 in the program).
MaxDrawnId == 2

\* ------------------------------------------------------- program constants

ALLOWED_GRADE_LOW == 9

ALLOWED_GRADE_HIGH == 12

\* 'A'
ALLOWED_GRADE_ID_LOW == 65

\* 'F'
ALLOWED_GRADE_ID_HIGH == 70

invalid_ticket_id == 0

invalid_ticket_generation == 0

\* FOUR_BYTE_HEADER('O', 'P', 'T', 'E')
table_entry_tag == 1330664517

\* TableEntryFlag::NotScannable, BIT(0)
NotScannable == 1

\* The retry budget of generate_ticket_id.
MaxTries == 512

ticket_id_low_range == 1

\* 36^5 in the program; scaled to the bound MaxTicketId.
ticket_id_high_range == MaxTicketId

\* ---------------------------------------------------------------- <cctype>

tolower(c) == IF c \in 65..90 THEN c + 32 ELSE c

toupper(c) == IF c \in 97..122 THEN c - 32 ELSE c

isalpha(c) == c \in 65..90 \/ c \in 97..122

\* ------------------------------------------------------------- MathUtils.h

\* safe_unsigned_addition without its overflow test: a + b in T's width.
WrappingAddition(a, b, max_value) ==
    [res |-> "Ok", value |-> (a + b) % (max_value + 1)]

\* safe_unsigned_addition<T>, T's largest value being max_value.
safe_unsigned_addition(a, b, max_value) ==
    IF max_value - a < b
    THEN [res |-> "IntegerOverflow", value |-> a]
    ELSE [res |-> "Ok", value |-> a + b]

\* safe_unsigned_increment without the assignment of the incremented value.
IncrementNotAssigned(value, max_value) ==
    [res |-> safe_unsigned_addition(value, 1, max_value).res, value |-> value]

\* safe_unsigned_increment<T>: the value is assigned only on success.
safe_unsigned_increment(value, max_value) ==
    safe_unsigned_addition(value, 1, max_value)

\* safe_unsigned_multiplication without its overflow test: a * b in T's width.
WrappingMultiplication(a, b, max_value) ==
    [res |-> "Ok", value |-> (a * b) % (max_value + 1)]

safe_unsigned_multiplication(a, b, max_value) ==
    IF a = 0 \/ b = 0
    THEN [res |-> "Ok", value |-> 0]
    ELSE IF (max_value \div a) < b
         THEN [res |-> "IntegerOverflow", value |-> a]
         ELSE [res |-> "Ok", value |-> a * b]

\* The digits of value, least significant first (the loop of
\* transform_to_base_36 before std::reverse).
RECURSIVE Base36Digits(_)
Base36Digits(value) ==
    IF value = 0 THEN <<>>
    ELSE LET digit == value % 36
             ch == IF digit <= 9 THEN 48 + digit ELSE 65 + (digit - 10)
         IN <<ch>> \o Base36Digits(value \div 36)

Reverse(s) == [i \in 1..Len(s) |-> s[Len(s) + 1 - i]]

\* transform_to_base_36 without std::reverse.
EncodeNotReversed(value) ==
    IF value = 0 THEN <<48>> ELSE Base36Digits(value)

transform_to_base_36(value) ==
    IF value = 0 THEN <<48>> ELSE Reverse(Base36Digits(value))

\* The loop of transform_from_base_36 with the character test reduced to the
\* ends of the range '0'..'Z'.
RECURSIVE LooseBase36Decode(_, _, _, _)
LooseBase36Decode(value, index, result, max_value) ==
    IF index > Len(value) THEN [res |-> "Ok", value |-> result]
    ELSE LET character == toupper(value[index]) IN
         IF character < 48 \/ character > 90
         THEN [res |-> "InvalidParameter", value |-> 0]
         ELSE LET m == safe_unsigned_multiplication(result, 36, max_value) IN
              IF m.res # "Ok" THEN [res |-> m.res, value |-> 0]
              ELSE LET a == IF character <= 57
                            THEN safe_unsigned_addition(m.value, character - 48, max_value)
                            ELSE safe_unsigned_addition(m.value, character - 65 + 10, max_value)
                   IN IF a.res # "Ok" THEN [res |-> a.res, value |-> 0]
                      ELSE LooseBase36Decode(value, index + 1, a.value, max_value)

RECURSIVE Base36Decode(_, _, _, _)
Base36Decode(value, index, result, max_value) ==
    IF index > Len(value) THEN [res |-> "Ok", value |-> result]
    ELSE LET character == toupper(value[index]) IN
         IF (character < 48 \/ character > 57) /\ (character < 65 \/ character > 90)
         THEN [res |-> "InvalidParameter", value |-> 0]
         ELSE LET m == safe_unsigned_multiplication(result, 36, max_value) IN
              IF m.res # "Ok" THEN [res |-> m.res, value |-> 0]
              ELSE LET a == IF character <= 57
                            THEN safe_unsigned_addition(m.value, character - 48, max_value)
                            ELSE safe_unsigned_addition(m.value, character - 65 + 10, max_value)
                   IN IF a.res # "Ok" THEN [res |-> a.res, value |-> 0]
                      ELSE Base36Decode(value, index + 1, a.value, max_value)

transform_from_base_36(value, max_value) == Base36Decode(value, 1, 0, max_value)

\* generate_random_unsigned: every value of the closed range can be drawn.
generate_random_unsigned(closed_min, closed_max) ==
    IF closed_min > closed_max
    THEN [res |-> "InvalidParameter", values |-> {}]
    ELSE [res |-> "Ok", values |-> closed_min..closed_max]

\* ------------------------------------------------------------ table entries

TableEntryMetadata(flags, scan_count, last_scan_date) ==
    [flags |-> flags, scan_count |-> scan_count, last_scan_date |-> last_scan_date]

TableEntry(first_name, last_name, grade, grade_id, metadata) ==
    [entry_tag |-> table_entry_tag, metadata |-> metadata,
     first_name |-> first_name, last_name |-> last_name,
     grade |-> grade, grade_id |-> grade_id]

is_corrupted(entry) == entry.entry_tag # table_entry_tag

check_corrupted(entry, result_code) ==
    IF is_corrupted(entry) THEN result_code ELSE "Ok"

\* The first loop of format_name_string.
LowerName(name) == [i \in 1..Len(name) |-> tolower(name[i])]

\* The second loop of format_name_string, from position index on.
RECURSIVE FormatNameLoop(_, _, _, _, _)
FormatNameLoop(name, index, character_must_be_uppercase, last_character, formatted_name) ==
    IF index > Len(name)
    THEN [res |-> "Ok",
          name |-> IF (last_character = 45 \/ last_character = 32) /\ formatted_name # <<>>
                   THEN SubSeq(formatted_name, 1, Len(formatted_name) - 1)
                   ELSE formatted_name]
    ELSE LET character == name[index] IN
         IF character # 45 /\ character # 32 /\ ~isalpha(character)
         THEN [res |-> "InvalidString", name |-> name]
         ELSE IF isalpha(character)
              THEN LET c == IF character_must_be_uppercase
                            THEN toupper(character) ELSE tolower(character)
                   IN FormatNameLoop(name, index + 1, FALSE, c, Append(formatted_name, c))
              ELSE IF last_character = 45
                   THEN FormatNameLoop(name, index + 1, TRUE, last_character, formatted_name)
                   ELSE FormatNameLoop(name, index + 1, TRUE, character,
                                       Append(formatted_name, character))

format_name_string(name) == FormatNameLoop(LowerName(name), 1, TRUE, 45, <<>>)

\* format_entry without the std::toupper of grade_id.
FormatEntryKeepingCase(entry) ==
    IF check_corrupted(entry, "CorruptedTableEntry") # "Ok"
    THEN [res |-> "CorruptedTableEntry", entry |-> entry]
    ELSE IF entry.grade < ALLOWED_GRADE_LOW \/ entry.grade > ALLOWED_GRADE_HIGH
    THEN [res |-> "InvalidEntryField", entry |-> entry]
    ELSE IF entry.grade_id < ALLOWED_GRADE_ID_LOW \/ entry.grade_id > ALLOWED_GRADE_ID_HIGH
         THEN [res |-> "InvalidEntryField", entry |-> entry]
         ELSE LET f == format_name_string(entry.first_name)
                  e2 == [entry EXCEPT !.first_name = f.name]
              IN IF f.res # "Ok" THEN [res |-> f.res, entry |-> e2]
                 ELSE LET l == format_name_string(e2.last_name)
                          e3 == [e2 EXCEPT !.last_name = l.name]
                      IN [res |-> l.res, entry |-> e3]

\* Table::format_entry; entry is the caller's entry as the call leaves it.
format_entry(entry) ==
    IF check_corrupted(entry, "CorruptedTableEntry") # "Ok"
    THEN [res |-> "CorruptedTableEntry", entry |-> entry]
    ELSE IF entry.grade < ALLOWED_GRADE_LOW \/ entry.grade > ALLOWED_GRADE_HIGH
    THEN [res |-> "InvalidEntryField", entry |-> entry]
    ELSE LET e1 == [entry EXCEPT !.grade_id = toupper(entry.grade_id)] IN
         IF e1.grade_id < ALLOWED_GRADE_ID_LOW \/ e1.grade_id > ALLOWED_GRADE_ID_HIGH
         THEN [res |-> "InvalidEntryField", entry |-> e1]
         ELSE LET f == format_name_string(e1.first_name)
                  e2 == [e1 EXCEPT !.first_name = f.name]
              IN IF f.res # "Ok" THEN [res |-> f.res, entry |-> e2]
                 ELSE LET l == format_name_string(e2.last_name)
                          e3 == [e2 EXCEPT !.last_name = l.name]
                      IN [res |-> l.res, entry |-> e3]

\* -------------------------------------------------------------------- Table

\* The keys in descending order: a range-for over a container that does not
\* keep its keys ascending.
RECURSIVE DescendingOrder(_)
DescendingOrder(keys) ==
    IF keys = {} THEN <<>>
    ELSE LET greatest == CHOOSE k \in keys : \A other \in keys : k >= other
         IN <<greatest>> \o DescendingOrder(keys \ {greatest})

\* The keys of a Map<TicketID, TableEntry> in the order a range-for visits them.
RECURSIVE IterationOrder(_)
IterationOrder(keys) ==
    IF keys = {} THEN <<>>
    ELSE LET least == CHOOSE k \in keys : \A other \in keys : k <= other
         IN <<least>> \o IterationOrder(keys \ {least})

Table(entries, generation) == [entries |-> entries, generation |-> generation]

\* A default-constructed TableEntry.
NoEntry == TableEntry(<<>>, <<>>, 0, 0, TableEntryMetadata(0, 0, ""))

NoToken == [id |-> invalid_ticket_id, generation |-> invalid_ticket_generation]

create_new == Table(<<>>, 1)

is_ticket_id_valid(t, ticket_id) == ticket_id \in DOMAIN t.entries

\* has_generated_ticket_id_expired without the comparison of generations.
NeverExpired(t, generated_ticket_id) ==
    IF generated_ticket_id.id = invalid_ticket_id
    THEN [res |-> "IdInvalid", value |-> TRUE]
    ELSE [res |-> "Ok", value |-> FALSE]

has_generated_ticket_id_expired(t, generated_ticket_id) ==
    IF generated_ticket_id.id = invalid_ticket_id
    THEN [res |-> "IdInvalid", value |-> TRUE]
    ELSE IF generated_ticket_id.generation = t.generation
         THEN [res |-> "Ok", value |-> FALSE]
         ELSE [res |-> "Ok", value |-> TRUE]

\* The test of one draw with the lookup left out: every draw is accepted.
DrawAccepted(t, ticket_id) == TRUE

\* The test of one draw in the loop of generate_ticket_id.
DrawIsUnused(t, ticket_id) == ticket_id \notin DOMAIN t.entries

\* The loop of generate_ticket_id: every (ticket_was_generated, ticket_id) it
\* can leave behind, over all outcomes of its draws.  It exits with the flag
\* set on the first unused draw, which any of the MaxTries draws can be when
\* the draws before it were taken; it exits with the flag clear when all
\* MaxTries draws were taken.
GenerateLoop(t) ==
    LET draw == generate_random_unsigned(ticket_id_low_range, ticket_id_high_range)
        unused == {id \in draw.values : DrawIsUnused(t, id)}
        taken == draw.values \ unused
    IN IF draw.res # "Ok"
       THEN {[res |-> draw.res, ticket_was_generated |-> FALSE,
              ticket_id |-> invalid_ticket_id]}
       ELSE (IF MaxTries >= 1
             THEN {[res |-> "Ok", ticket_was_generated |-> TRUE, ticket_id |-> id] :
                      id \in unused}
             ELSE {})
            \cup (IF MaxTries = 0 \/ taken # {}
                  THEN {[res |-> "Ok", ticket_was_generated |-> FALSE,
                         ticket_id |-> CHOOSE id \in taken \cup {invalid_ticket_id} : TRUE]}
                  ELSE {})

\* Table::generate_ticket_id: the set of its possible outcomes.
generate_ticket_id(t) ==
    { IF loop.res # "Ok"
      THEN [res |-> loop.res, table |-> t, token |-> NoToken]
      ELSE IF ~loop.ticket_was_generated
      THEN [res |-> "IdGenerationFailed", table |-> t, token |-> NoToken]
      ELSE LET inc == safe_unsigned_increment(t.generation, MaxGeneration) IN
           IF inc.res # "Ok"
           THEN [res |-> inc.res, table |-> t, token |-> NoToken]
           ELSE [res |-> "Ok", table |-> Table(t.entries, inc.value),
                 token |-> [id |-> loop.ticket_id, generation |-> inc.value]]
      : loop \in GenerateLoop(t) }

SameIdentity(existing_entry, entry) ==
    /\ existing_entry.grade = entry.grade
    /\ existing_entry.grade_id = entry.grade_id
    /\ existing_entry.last_name = entry.last_name
    /\ existing_entry.first_name = entry.first_name

\* The loop of similar_entry_already_exists over the keys still to visit.
RECURSIVE SimilarLoop(_, _, _)
SimilarLoop(t, order, entry) ==
    IF order = <<>> THEN [res |-> "Ok", value |-> FALSE]
    ELSE LET existing_entry == t.entries[Head(order)] IN
         IF check_corrupted(existing_entry, "CorruptedTable") # "Ok"
         THEN [res |-> "CorruptedTable", value |-> FALSE]
         ELSE IF SameIdentity(existing_entry, entry)
              THEN [res |-> "Ok", value |-> TRUE]
              ELSE SimilarLoop(t, Tail(order), entry)

similar_entry_already_exists(t, entry) ==
    IF check_corrupted(entry, "CorruptedTableEntry") # "Ok"
    THEN [res |-> "CorruptedTableEntry", value |-> FALSE]
    ELSE SimilarLoop(t, IterationOrder(DOMAIN t.entries), entry)

\* m_entries.insert({ticket_id, entry}).
MapInsert(entries, ticket_id, entry) ==
    IF ticket_id \in DOMAIN entries THEN entries
    ELSE [k \in DOMAIN entries \cup {ticket_id} |->
             IF k = ticket_id THEN entry ELSE entries[k]]

\* An erase of the range [begin, entry_it] instead of the one element.
EraseThrough(entries, ticket_id) ==
    [k \in {key \in DOMAIN entries : key > ticket_id} |-> entries[k]]

\* m_entries.erase(entry_it).
MapErase(entries, ticket_id) ==
    [k \in DOMAIN entries \ {ticket_id} |-> entries[k]]

\* The last steps of insert_entry_with_ticket_id with the entry stored as it
\* was passed.
StoreUnformatted(t, ticket_id, entry) ==
    LET formatted == format_entry(entry) IN
    IF formatted.res # "Ok" THEN [res |-> formatted.res, table |-> t]
    ELSE LET inc == safe_unsigned_increment(t.generation, MaxGeneration) IN
         IF inc.res # "Ok" THEN [res |-> inc.res, table |-> t]
         ELSE [res |-> "Ok",
               table |-> Table(MapInsert(t.entries, ticket_id, entry), inc.value)]

\* The last steps of insert_entry_with_ticket_id with the generation bumped
\* before format_entry is tried.
BumpBeforeFormat(t, ticket_id, entry) ==
    LET inc == safe_unsigned_increment(t.generation, MaxGeneration) IN
    IF inc.res # "Ok" THEN [res |-> inc.res, table |-> t]
    ELSE LET formatted == format_entry(entry) IN
         IF formatted.res # "Ok"
         THEN [res |-> formatted.res, table |-> Table(t.entries, inc.value)]
         ELSE [res |-> "Ok",
               table |-> Table(MapInsert(t.entries, ticket_id, formatted.entry),
                               inc.value)]

\* The last steps of insert_entry_with_ticket_id, once the id is known to be
\* free and no similar entry was found: format, bump the generation, insert.
FormatBumpInsert(t, ticket_id, entry) ==
    LET formatted == format_entry(entry) IN
    IF formatted.res # "Ok" THEN [res |-> formatted.res, table |-> t]
    ELSE LET inc == safe_unsigned_increment(t.generation, MaxGeneration) IN
         IF inc.res # "Ok" THEN [res |-> inc.res, table |-> t]
         ELSE [res |-> "Ok",
               table |-> Table(MapInsert(t.entries, ticket_id, formatted.entry),
                               inc.value)]

\* Table::insert_entry_with_ticket_id(TicketID, TableEntry).
insert_entry_with_ticket_id(t, ticket_id, entry) ==
    IF check_corrupted(entry, "CorruptedTableEntry") # "Ok"
    THEN [res |-> "CorruptedTableEntry", table |-> t]
    ELSE IF ticket_id \in DOMAIN t.entries
    THEN [res |-> "IdAlreadyExists", table |-> t]
    ELSE LET similar == similar_entry_already_exists(t, entry) IN
         IF similar.res # "Ok" THEN [res |-> similar.res, table |-> t]
         ELSE IF similar.value THEN [res |-> "EntryAlreadyExists", table |-> t]
         ELSE FormatBumpInsert(t, ticket_id, entry)

\* Table::insert_entry_with_ticket_id(GeneratedTicketID, TableEntry).
insert_entry_with_generated_ticket_id(t, generated_ticket_id, entry) ==
    LET expired == has_generated_ticket_id_expired(t, generated_ticket_id) IN
    IF expired.res # "Ok" THEN [res |-> expired.res, table |-> t]
    ELSE IF expired.value THEN [res |-> "IdExpired", table |-> t]
    ELSE insert_entry_with_ticket_id(t, generated_ticket_id.id, entry)

\* Table::insert_entry: the set of its possible outcomes.
insert_entry(t, entry) ==
    { IF generated.res # "Ok"
      THEN [res |-> generated.res, table |-> generated.table, id |-> invalid_ticket_id]
      ELSE LET inserted == insert_entry_with_generated_ticket_id(
                               generated.table, generated.token, entry)
           IN IF inserted.res # "Ok"
              THEN [res |-> inserted.res, table |-> inserted.table,
                    id |-> invalid_ticket_id]
              ELSE [res |-> "Ok", table |-> inserted.table, id |-> generated.token.id]
      : generated \in generate_ticket_id(t) }

\* remove_ticket with the generation bumped when the entry is erased.
RemoveTicketBumping(t, ticket_id) ==
    IF ticket_id \notin DOMAIN t.entries
    THEN [res |-> "IdNotFound", table |-> t]
    ELSE IF check_corrupted(t.entries[ticket_id], "CorruptedTableEntry") # "Ok"
    THEN [res |-> "CorruptedTableEntry", table |-> t]
    ELSE LET inc == safe_unsigned_increment(t.generation, MaxGeneration) IN
         IF inc.res # "Ok" THEN [res |-> inc.res, table |-> t]
         ELSE [res |-> "Ok", table |-> Table(MapErase(t.entries, ticket_id), inc.value)]

\* Table::remove_ticket.
remove_ticket(t, ticket_id) ==
    IF ticket_id \notin DOMAIN t.entries
    THEN [res |-> "IdNotFound", table |-> t]
    ELSE IF check_corrupted(t.entries[ticket_id], "CorruptedTableEntry") # "Ok"
    THEN [res |-> "CorruptedTableEntry", table |-> t]
    ELSE [res |-> "Ok", table |-> Table(MapErase(t.entries, ticket_id), t.generation)]

entry_count(t) == Cardinality(DOMAIN t.entries)

\* Table::get_entry.
get_entry(t, ticket_id) ==
    IF ticket_id \notin DOMAIN t.entries
    THEN [res |-> "IdNotFound", entry |-> NoEntry]
    ELSE IF check_corrupted(t.entries[ticket_id], "CorruptedTableEntry") # "Ok"
    THEN [res |-> "CorruptedTableEntry", entry |-> NoEntry]
    ELSE [res |-> "Ok", entry |-> t.entries[ticket_id]]

\* The loop of iterate_over_entries over the keys still to visit; callback
\* maps a ticket id to the IterationDecision it returns for that entry, and
\* visited lists the ids it has been invoked on.
RECURSIVE IterateLoop(_, _, _, _)
IterateLoop(t, order, callback, visited) ==
    IF order = <<>> THEN [res |-> "Ok", visited |-> visited]
    ELSE LET ticket_id == Head(order) IN
         IF check_corrupted(t.entries[ticket_id], "CorruptedTable") # "Ok"
         THEN [res |-> "CorruptedTable", visited |-> visited]
         ELSE IF callback[ticket_id] = "Break"
              THEN [res |-> "Ok", visited |-> Append(visited, ticket_id)]
              ELSE IterateLoop(t, Tail(order), callback, Append(visited, ticket_id))

\* Table::iterate_over_entries.
iterate_over_entries(t, callback) ==
    IterateLoop(t, IterationOrder(DOMAIN t.entries), callback, <<>>)

\* Table::find_ticket_id_by_name: its callback returns Continue for every
\* entry and keeps the ids of the entries with both names.
find_ticket_id_by_name(t, first_name, last_name) ==
    LET visit == iterate_over_entries(
                     t, [ticket_id \in DOMAIN t.entries |-> "Continue"])
        HasNames(ticket_id) == /\ t.entries[ticket_id].first_name = first_name
                               /\ t.entries[ticket_id].last_name = last_name
    IN IF visit.res # "Ok" THEN [res |-> visit.res, ticket_ids |-> <<>>]
       ELSE [res |-> "Ok", ticket_ids |-> SelectSeq(visit.visited, HasNames)]

\* get_current_date_and_time: now is the formatted local time, or
\* "localtime_s failed".
get_current_date_and_time(metadata, now) ==
    IF now = "localtime_s failed" THEN [res |-> "UnknownFailure", metadata |-> metadata]
    ELSE [res |-> "Ok", metadata |-> [metadata EXCEPT !.last_scan_date = now]]

\* increment_ticket_scan_count without the test of the NotScannable flag.
ScanWhateverTheFlags(t, ticket_id, now) ==
    LET got == get_entry(t, ticket_id) IN
    IF got.res # "Ok" THEN [res |-> got.res, table |-> t]
    ELSE LET stamped == get_current_date_and_time(got.entry.metadata, now) IN
         IF stamped.res # "Ok" THEN [res |-> stamped.res, table |-> t]
         ELSE LET inc == safe_unsigned_increment(stamped.metadata.scan_count, MaxScanCount)
              IN IF inc.res # "Ok"
                 THEN [res |-> inc.res,
                       table |-> Table([t.entries EXCEPT
                                           ![ticket_id].metadata = stamped.metadata],
                                       t.generation)]
                 ELSE [res |-> "Ok",
                       table |-> Table([t.entries EXCEPT
                                           ![ticket_id].metadata =
                                               [stamped.metadata EXCEPT
                                                   !.scan_count = inc.value]],
                                       t.generation)]

\* Table::increment_ticket_scan_count; entry is a reference into the map, so
\* what each step writes stays written when a later step fails.
increment_ticket_scan_count(t, ticket_id, now) ==
    LET got == get_entry(t, ticket_id) IN
    IF got.res # "Ok" THEN [res |-> got.res, table |-> t]
    ELSE IF (got.entry.metadata.flags \div NotScannable) % 2 = 1
    THEN [res |-> "IdNotScannable", table |-> t]
    ELSE LET stamped == get_current_date_and_time(got.entry.metadata, now) IN
         IF stamped.res # "Ok" THEN [res |-> stamped.res, table |-> t]
         ELSE LET t1 == Table([t.entries EXCEPT ![ticket_id].metadata = stamped.metadata],
                              t.generation)
                  inc == safe_unsigned_increment(stamped.metadata.scan_count, MaxScanCount)
              IN IF inc.res # "Ok" THEN [res |-> inc.res, table |-> t1]
                 ELSE [res |-> "Ok",
                       table |-> Table([t1.entries EXCEPT
                                           ![ticket_id].metadata.scan_count = inc.value],
                                       t1.generation)]

\* -------------------------------------------------------------- persistence

\* What save_to_file emits for one entry.
EmitEntry(ticket_id, entry) ==
    [ticket_id |-> transform_to_base_36(ticket_id),
     first_name |-> entry.first_name,
     last_name |-> entry.last_name,
     grade |-> entry.grade,
     grade_id |-> entry.grade_id,
     metadata |-> [flags |-> entry.metadata.flags,
                   scan_count |-> entry.metadata.scan_count,
                   last_scan_date |-> IF entry.metadata.last_scan_date # ""
                                      THEN entry.metadata.last_scan_date
                                      ELSE "N/A"]]

\* The loop of save_to_file with a corrupted entry left out of the document
\* instead of ending the call.
RECURSIVE SaveLoopSkippingCorrupted(_, _, _)
SaveLoopSkippingCorrupted(t, order, emitted) ==
    IF order = <<>> THEN [res |-> "Ok", entries |-> emitted]
    ELSE IF check_corrupted(t.entries[Head(order)], "CorruptedTable") # "Ok"
         THEN SaveLoopSkippingCorrupted(t, Tail(order), emitted)
         ELSE SaveLoopSkippingCorrupted(
                  t, Tail(order),
                  Append(emitted, EmitEntry(Head(order), t.entries[Head(order)])))

\* The loop of save_to_file over the keys still to visit.
RECURSIVE SaveLoop(_, _, _)
SaveLoop(t, order, emitted) ==
    IF order = <<>> THEN [res |-> "Ok", entries |-> emitted]
    ELSE IF check_corrupted(t.entries[Head(order)], "CorruptedTable") # "Ok"
         THEN [res |-> "CorruptedTable", entries |-> emitted]
         ELSE SaveLoop(t, Tail(order),
                       Append(emitted, EmitEntry(Head(order), t.entries[Head(order)])))

NoDocument == [info |-> [name |-> "", tickets |-> 0], entries |-> <<>>]

\* Table::save_to_file: document is what the file holds when the call returns
\* Ok; can_open is whether the output file could be opened.
save_to_file(t, can_open) ==
    LET emitted == SaveLoop(t, IterationOrder(DOMAIN t.entries), <<>>) IN
    IF emitted.res # "Ok" THEN [res |-> emitted.res, document |-> NoDocument]
    ELSE IF ~can_open THEN [res |-> "InvalidFilepath", document |-> NoDocument]
    ELSE [res |-> "Ok",
          document |-> [info |-> [name |-> "CNGC-BB-2024",
                                  tickets |-> Cardinality(DOMAIN t.entries)],
                        entries |-> emitted.entries]]

\* The entry create_from_file builds from one listed entry.
ParsedEntry(listed) ==
    [TableEntry(listed.first_name, listed.last_name, listed.grade % 256, listed.grade_id,
                TableEntryMetadata(listed.metadata.flags, listed.metadata.scan_count,
                                   listed.metadata.last_scan_date))
     EXCEPT !.entry_tag = table_entry_tag]

\* The loop of create_from_file over the listed entries still to load.
RECURSIVE LoadLoop(_, _)
LoadLoop(t, listed) ==
    IF listed = <<>> THEN [res |-> "Ok", table |-> t]
    ELSE LET decoded == transform_from_base_36(Head(listed).ticket_id, MaxDecoded) IN
         IF decoded.res # "Ok" THEN [res |-> decoded.res, table |-> t]
         ELSE LET inserted == insert_entry_with_ticket_id(
                                  t, decoded.value, ParsedEntry(Head(listed)))
              IN IF inserted.res # "Ok" THEN inserted
                 ELSE LoadLoop(inserted.table, Tail(listed))

\* create_from_file without the comparison of info.tickets with the number of
\* entries loaded.
CreateFromFileUncounted(document, can_open) ==
    IF ~can_open THEN [res |-> "InvalidFilepath", table |-> create_new]
    ELSE LoadLoop(create_new, document.entries)

\* Table::create_from_file on a file holding document; can_open is whether
\* the file could be opened.
create_from_file(document, can_open) ==
    IF ~can_open THEN [res |-> "InvalidFilepath", table |-> create_new]
    ELSE LET loaded == LoadLoop(create_new, document.entries) IN
         IF loaded.res # "Ok" THEN loaded
         ELSE IF document.info.tickets # Cardinality(DOMAIN loaded.table.entries)
              THEN [res |-> "CorruptedTable", table |-> loaded.table]
              ELSE [res |-> "Ok", table |-> loaded.table]

\* ------------------------------------------------------------------- inputs

\* The entries a caller hands to the insertion calls:
\*   "Jo" "D" 9 'A' and the same person typed as "jo" "d" 9 'a', both flagged
\*   not scannable;  "An" "D" 12 'F';
\*   first name "j1";  an entry whose tag is not table_entry_tag.
Candidates ==
    { TableEntry(<<74, 111>>, <<68>>, 9, 65, TableEntryMetadata(NotScannable, 0, "")),
      TableEntry(<<106, 111>>, <<100>>, 9, 97, TableEntryMetadata(NotScannable, 0, "")),
      TableEntry(<<65, 110>>, <<68>>, 12, 70, TableEntryMetadata(0, 0, "")),
      TableEntry(<<106, 49>>, <<68>>, 9, 65, TableEntryMetadata(0, 0, "")),
      [TableEntry(<<74, 111>>, <<68>>, 9, 65, TableEntryMetadata(0, 0, ""))
          EXCEPT !.entry_tag = 0] }

\* The ids a caller passes: the invalid id and every id generate_ticket_id
\* can draw.
TicketIds == invalid_ticket_id..ticket_id_high_range

\* What a scan reads from the clock: a local time, or NoTime when localtime_s
\* fails.
Timestamps == {"1/1/2024-10:0:0", "1/1/2024-10:0:1"}

NoTime == "localtime_s failed"

\* -------------------------------------------------------------------- state

VARIABLES
    m_entries,               \* Table::m_entries
    m_ticket_id_generation,  \* Table::m_ticket_id_generation
    tokens,                  \* the GeneratedTicketIDs the caller holds (the two it
                             \* was given last), each with the kinds of successful
                             \* mutating calls made since it was returned and
                             \* whether an insertion with it has succeeded
    last,                    \* the last call: its name, its result code, and the
                             \* id it returned (invalid_ticket_id when it returns
                             \* none)
    pure,                    \* the last call of a function that takes no Table
                             \* (the codec, format_entry, create_from_file): its
                             \* name, its argument and what it returned
    frame                    \* the locals of the generate_ticket_id call that is
                             \* being executed statement by statement (NoFrame
                             \* when none is): try_counter, ticket_was_generated,
                             \* ticket_id, and how many of its draws were in use

vars == <<m_entries, m_ticket_id_generation, tokens, last, pure, frame>>

table == Table(m_entries, m_ticket_id_generation)

Returned(op, res, id) == [op |-> op, res |-> res, id |-> id]

\* The GeneratedTicketID a held token stands for.
Generated(g) == [id |-> g.id, generation |-> g.generation]

\* The caller's tokens after a successful mutating call of the given kind.
Noted(kind) == {[g EXCEPT !.since = @ \cup {kind}] : g \in tokens}

\* No call of a function that takes no Table has been made.
NoCall == [op |-> "none", arg |-> <<>>, out |-> <<>>]

\* No generate_ticket_id call is being executed statement by statement.
NoFrame == [try_counter |-> 0, ticket_was_generated |-> FALSE,
            ticket_id |-> invalid_ticket_id, collisions |-> 0, running |-> FALSE]

Init ==
    /\ m_entries = create_new.entries
    /\ m_ticket_id_generation = create_new.generation
    /\ tokens = {}
    /\ last = Returned("create_new", "Ok", invalid_ticket_id)
    /\ pure = NoCall
    /\ frame = NoFrame

\* A call of generate_ticket_id with outcome out.
GenerateTicketIdCall(out) ==
    /\ out \in generate_ticket_id(table)
    /\ m_entries' = out.table.entries
    /\ m_ticket_id_generation' = out.table.generation
    /\ tokens' = IF out.res = "Ok"
                 THEN {g \in Noted("generate") :
                          \A h \in tokens : h.generation <= g.generation}
                      \cup {[id |-> out.token.id, generation |-> out.token.generation,
                             since |-> {}, used |-> FALSE]}
                 ELSE tokens
    /\ last' = Returned("generate_ticket_id", out.res, out.token.id)
    /\ UNCHANGED <<pure, frame>>

GenerateTicketId ==
    \E out \in generate_ticket_id(table) : GenerateTicketIdCall(out)

\* A call of insert_entry_with_ticket_id(ticket_id, entry).
InsertEntryWithTicketIdCall(ticket_id, entry) ==
    LET out == insert_entry_with_ticket_id(table, ticket_id, entry) IN
    /\ m_entries' = out.table.entries
    /\ m_ticket_id_generation' = out.table.generation
    /\ tokens' = IF out.res = "Ok" THEN Noted("insert") ELSE tokens
    /\ last' = Returned("insert_entry_with_ticket_id", out.res, invalid_ticket_id)
    /\ UNCHANGED <<pure, frame>>

InsertEntryWithTicketId ==
    \E ticket_id \in TicketIds, entry \in Candidates :
        InsertEntryWithTicketIdCall(ticket_id, entry)

\* A call of insert_entry_with_ticket_id(g, entry) with a held token g.
InsertEntryWithGeneratedTicketIdCall(g, entry) ==
    LET out == insert_entry_with_generated_ticket_id(table, Generated(g), entry) IN
    /\ m_entries' = out.table.entries
    /\ m_ticket_id_generation' = out.table.generation
    /\ tokens' = IF out.res = "Ok"
                 THEN {[h EXCEPT !.since = @ \cup {"insert"},
                                 !.used = @ \/ h.generation = g.generation] :
                          h \in tokens}
                 ELSE tokens
    /\ last' = Returned("insert_entry_with_generated_ticket_id", out.res, invalid_ticket_id)
    /\ UNCHANGED <<pure, frame>>

InsertEntryWithGeneratedTicketId ==
    \E g \in tokens, entry \in Candidates :
        InsertEntryWithGeneratedTicketIdCall(g, entry)

\* A call of insert_entry(entry) with outcome out.
InsertEntryCall(entry, out) ==
    /\ out \in insert_entry(table, entry)
    /\ m_entries' = out.table.entries
    /\ m_ticket_id_generation' = out.table.generation
    /\ tokens' = IF out.res = "Ok" THEN Noted("insert") ELSE tokens
    /\ last' = Returned("insert_entry", out.res, out.id)
    /\ UNCHANGED <<pure, frame>>

InsertEntry ==
    \E entry \in Candidates :
        \E out \in insert_entry(table, entry) : InsertEntryCall(entry, out)

\* A call of remove_ticket(ticket_id).
RemoveTicketCall(ticket_id) ==
    LET out == remove_ticket(table, ticket_id) IN
    /\ m_entries' = out.table.entries
    /\ m_ticket_id_generation' = out.table.generation
    /\ tokens' = IF out.res = "Ok" THEN Noted("remove_or_scan") ELSE tokens
    /\ last' = Returned("remove_ticket", out.res, invalid_ticket_id)
    /\ UNCHANGED <<pure, frame>>

RemoveTicket ==
    \E ticket_id \in TicketIds : RemoveTicketCall(ticket_id)

\* A call of increment_ticket_scan_count(ticket_id) at local time now.
IncrementTicketScanCountCall(ticket_id, now) ==
    LET out == increment_ticket_scan_count(table, ticket_id, now) IN
    /\ m_entries' = out.table.entries
    /\ m_ticket_id_generation' = out.table.generation
    /\ tokens' = IF out.res = "Ok" THEN Noted("remove_or_scan") ELSE tokens
    /\ last' = Returned("increment_ticket_scan_count", out.res, invalid_ticket_id)
    /\ UNCHANGED <<pure, frame>>

IncrementTicketScanCount ==
    \E ticket_id \in TicketIds, now \in Timestamps \cup {NoTime} :
        IncrementTicketScanCountCall(ticket_id, now)

\* A call of save_to_file.
SaveToFile ==
    \E can_open \in BOOLEAN :
        LET out == save_to_file(table, can_open) IN
        /\ UNCHANGED <<m_entries, m_ticket_id_generation, tokens>>
        /\ last' = Returned("save_to_file", out.res, invalid_ticket_id)
        /\ UNCHANGED <<pure, frame>>

Next ==
    \/ GenerateTicketId
    \/ InsertEntryWithTicketId
    \/ InsertEntryWithGeneratedTicketId
    \/ InsertEntry
    \/ RemoveTicket
    \/ IncrementTicketScanCount
    \/ SaveToFile

Spec == Init /\ [][Next]_vars

\* --------------------------------------------------------------- properties

\* The entry stored for a candidate that format_entry accepts.
Canonical(entry) == format_entry(entry).entry

\* The calls that bump the generation by one when they succeed.
GenerationCalls ==
    {"generate_ticket_id", "insert_entry_with_ticket_id",
     "insert_entry_with_generated_ticket_id"}

\* The ids generate_ticket_id draws from.
DrawnIds == ticket_id_low_range..ticket_id_high_range

\* C1: in every table reached from create_new, no two entries stored under
\* different ticket ids have equal grade, grade_id, last_name and first_name.
C1_NoTwoEntriesShareIdentity ==
    \A a \in DOMAIN m_entries, b \in DOMAIN m_entries :
        a # b => ~SameIdentity(m_entries[a], m_entries[b])

\* C2: an insertion of a candidate whose canonicalized identity equals that of
\* a stored entry fails with EntryAlreadyExists, whatever the case the
\* candidate was typed in.  Stated for calls the earlier checks let through:
\* a free id, a token that has not expired, room left in the generation
\* counter; insert_entry may also fail to generate an id.
C2_SimilarCandidateIsRejected ==
    [][ \A entry \in Candidates :
          ( /\ format_entry(entry).res = "Ok"
            /\ \E k \in DOMAIN m_entries :
                  SameIdentity(m_entries[k], Canonical(entry))
            /\ m_ticket_id_generation + 1 < MaxGeneration )
          =>
          /\ \A ticket_id \in TicketIds \ DOMAIN m_entries :
                InsertEntryWithTicketIdCall(ticket_id, entry)
                    => last'.res = "EntryAlreadyExists"
          /\ \A g \in tokens :
                ( /\ g.generation = m_ticket_id_generation
                  /\ g.id \notin DOMAIN m_entries
                  /\ InsertEntryWithGeneratedTicketIdCall(g, entry) )
                    => last'.res = "EntryAlreadyExists"
          /\ \A out \in insert_entry(table, entry) :
                InsertEntryCall(entry, out)
                    => last'.res \in {"EntryAlreadyExists", "IdGenerationFailed"}
      ]_vars

\* C3 as claimed: a token is rejected with IdExpired once any successful
\* mutating call (generate_ticket_id, an insertion, remove_ticket,
\* increment_ticket_scan_count) has been made since it was returned.
C3_AnyMutationExpiresToken ==
    [][ last'.op = "insert_entry_with_generated_ticket_id" =>
        \A g \in tokens, entry \in Candidates :
          ( /\ g.since # {}
            /\ InsertEntryWithGeneratedTicketIdCall(g, entry) )
          => last'.res = "IdExpired"
      ]_vars

\* C3 amended: a token is rejected with IdExpired once a successful
\* generate_ticket_id or a successful insertion has been made since it was
\* returned.
C3_GenerationBumpExpiresToken ==
    [][ last'.op = "insert_entry_with_generated_ticket_id" =>
        \A g \in tokens, entry \in Candidates :
          ( /\ g.since \cap {"generate", "insert"} # {}
            /\ InsertEntryWithGeneratedTicketIdCall(g, entry) )
          => last'.res = "IdExpired"
      ]_vars

\* C3 witness: a rejection with IdExpired when every held token has seen an
\* insertion, and one of them an insertion only.
C3_TokenExpiredByInsertion ==
    /\ last.op = "insert_entry_with_generated_ticket_id"
    /\ last.res = "IdExpired"
    /\ \A g \in tokens : "insert" \in g.since
    /\ \E g \in tokens : ~g.used /\ g.since = {"insert"}

\* C4: the id a successful generate_ticket_id returns is not a key of the
\* table at the time of return.
C4_GeneratedIdIsNotAKey ==
    (last.op = "generate_ticket_id" /\ last.res = "Ok")
        => /\ last.id \in DrawnIds
           /\ last.id \notin DOMAIN m_entries

\* C4 witness: an id returned by generate_ticket_id to a table that holds an
\* entry.
C4_GeneratedForNonEmptyTable ==
    /\ last.op = "generate_ticket_id"
    /\ last.res = "Ok"
    /\ DOMAIN m_entries # {}

\* C5: a token admits at most one successful insertion, and a token returned
\* before another successful generate_ticket_id admits none: both are
\* rejected with IdExpired.
C5_TokenInsertsAtMostOnce ==
    [][ last'.op = "insert_entry_with_generated_ticket_id" =>
        \A g \in tokens, entry \in Candidates :
          ( /\ g.used \/ "generate" \in g.since
            /\ InsertEntryWithGeneratedTicketIdCall(g, entry) )
          => /\ last'.res = "IdExpired"
             /\ UNCHANGED <<m_entries, m_ticket_id_generation>>
      ]_vars

\* C5 witness: two ids were generated, the second was inserted, and a further
\* insertion is rejected with IdExpired when every held token is used or older
\* than a generate_ticket_id.
C5_SecondInsertionRejected ==
    /\ last.op = "insert_entry_with_generated_ticket_id"
    /\ last.res = "IdExpired"
    /\ Cardinality(tokens) = 2
    /\ \E g \in tokens : g.used
    /\ \E g \in tokens : ~g.used /\ "generate" \in g.since

\* C6: a table written by save_to_file and read back by create_from_file has
\* the same ticket ids in the same iteration order, with identical fields for
\* every id, entries never scanned included.
C6_SaveThenLoadIsIdentity ==
    (last.op = "save_to_file" /\ last.res = "Ok")
        => LET saved == save_to_file(table, TRUE)
               loaded == create_from_file(saved.document, TRUE)
           IN /\ loaded.res = "Ok"
              /\ IterationOrder(DOMAIN loaded.table.entries)
                     = IterationOrder(DOMAIN m_entries)
              /\ \A k \in DOMAIN m_entries :
                    /\ k \in DOMAIN loaded.table.entries
                    /\ loaded.table.entries[k] = m_entries[k]

\* C7: when insert_entry(e) succeeds with id, get_entry(id) returns e with its
\* names and grade_id canonicalized, entry_count has grown by one, and every
\* entry stored before is unchanged.
C7_InsertEntryStoresCanonicalEntry ==
    [][ (last'.op = "insert_entry" /\ last'.res = "Ok") =>
        \A entry \in Candidates :
          \A out \in insert_entry(table, entry) :
            (InsertEntryCall(entry, out) /\ out.res = "Ok")
            => LET after == Table(m_entries', m_ticket_id_generation')
                   got == get_entry(after, last'.id)
               IN /\ got.res = "Ok"
                  /\ got.entry.first_name = format_name_string(entry.first_name).name
                  /\ got.entry.last_name = format_name_string(entry.last_name).name
                  /\ got.entry.grade_id = toupper(entry.grade_id)
                  /\ got.entry.grade = entry.grade
                  /\ got.entry.metadata = entry.metadata
                  /\ entry_count(after) = entry_count(table) + 1
                  /\ \A k \in DOMAIN m_entries :
                        /\ k \in DOMAIN m_entries'
                        /\ m_entries'[k] = m_entries[k]
      ]_vars

\* C7 witness: insert_entry has succeeded on a table that held an entry.
C7_InsertedNextToAnEntry ==
    /\ last.op = "insert_entry"
    /\ last.res = "Ok"
    /\ last.id \in DOMAIN m_entries
    /\ Cardinality(DOMAIN m_entries) >= 2

\* What C8 says of every step: the generation never decreases, wraps or
\* becomes 0, and grows by exactly one in each successful generate_ticket_id
\* and insert_entry_with_ticket_id.
C8_Monotone ==
    /\ m_ticket_id_generation' >= m_ticket_id_generation
    /\ m_ticket_id_generation' \in 1..MaxGeneration
    /\ m_ticket_id_generation' # invalid_ticket_generation
    /\ (last'.op \in GenerationCalls /\ last'.res = "Ok")
          => m_ticket_id_generation' = m_ticket_id_generation + 1

\* C8 as claimed: ... and at its largest value these calls fail with
\* IntegerOverflow and leave it unchanged.
C8_FullCounterGivesIntegerOverflow ==
    [][ /\ C8_Monotone
        /\ (last'.op \in GenerationCalls /\ m_ticket_id_generation = MaxGeneration)
              => /\ last'.res = "IntegerOverflow"
                 /\ m_ticket_id_generation' = m_ticket_id_generation
      ]_vars

\* What the calls that bump the generation return to a table whose generation
\* is at its largest value: never Ok, the table as it was, and
\* IntegerOverflow unless an earlier check has failed, that is,
\* generate_ticket_id found no free id, the token has expired, or the
\* insertion would have failed with room in the counter too.
C8_AtFullCounter ==
    m_ticket_id_generation = MaxGeneration =>
        /\ \A out \in generate_ticket_id(table) :
              /\ out.table = table
              /\ out.res \in {"IntegerOverflow", "IdGenerationFailed"}
              /\ DrawnIds \cap DOMAIN m_entries = {} => out.res = "IntegerOverflow"
        /\ \A ticket_id \in TicketIds, entry \in Candidates :
              LET out == insert_entry_with_ticket_id(table, ticket_id, entry)
                  roomy == insert_entry_with_ticket_id(
                               Table(m_entries, 1), ticket_id, entry)
              IN /\ out.table = table
                 /\ out.res = IF roomy.res = "Ok" THEN "IntegerOverflow"
                              ELSE roomy.res
        /\ \A g \in tokens, entry \in Candidates :
              LET out == insert_entry_with_generated_ticket_id(
                             table, Generated(g), entry)
                  roomy == insert_entry_with_ticket_id(
                               Table(m_entries, 1), g.id, entry)
              IN /\ out.table = table
                 /\ out.res = IF g.generation # m_ticket_id_generation
                              THEN "IdExpired"
                              ELSE IF roomy.res = "Ok" THEN "IntegerOverflow"
                              ELSE roomy.res

\* C8 amended: the generation never decreases, wraps or becomes 0, grows by
\* exactly one in each successful generate_ticket_id and
\* insert_entry_with_ticket_id, and at its largest value these calls never
\* succeed and leave it unchanged: they fail with IntegerOverflow unless an
\* earlier check has failed.
C8_FullCounterNeverGrows ==
    /\ []C8_AtFullCounter
    /\ [][C8_Monotone]_vars

\* C8 witness: a call has failed with IntegerOverflow at the largest
\* generation.
C8_OverflowAtFullCounter ==
    /\ m_ticket_id_generation = MaxGeneration
    /\ last.op \in GenerationCalls
    /\ last.res = "IntegerOverflow"

\* C9: an insert_entry_with_ticket_id call (either overload) that returns an
\* error leaves the entries and the generation exactly as they were.
C9_FailedInsertionChangesNothing ==
    [][ ( /\ last'.op \in {"insert_entry_with_ticket_id",
                           "insert_entry_with_generated_ticket_id"}
          /\ last'.res # "Ok" )
        => /\ m_entries' = m_entries
           /\ m_ticket_id_generation' = m_ticket_id_generation
      ]_vars

\* C9 witness: an insertion was rejected by format_entry, the last check
\* before the table is changed, on a table that holds an entry.
C9_RejectedByFormatEntry ==
    /\ last.op \in {"insert_entry_with_ticket_id",
                    "insert_entry_with_generated_ticket_id"}
    /\ last.res = "InvalidString"
    /\ DOMAIN m_entries # {}

\* C10: an increment_ticket_scan_count that fails with IntegerOverflow leaves
\* every entry's scan_count and last_scan_date as they were.
C10_OverflowingScanChangesNothing ==
    [][ ( /\ last'.op = "increment_ticket_scan_count"
          /\ last'.res = "IntegerOverflow" )
        => \A k \in DOMAIN m_entries :
              /\ k \in DOMAIN m_entries'
              /\ m_entries'[k].metadata.scan_count = m_entries[k].metadata.scan_count
              /\ m_entries'[k].metadata.last_scan_date
                     = m_entries[k].metadata.last_scan_date
      ]_vars

\* Whether the entry's flags have the NotScannable bit set.
IsNotScannable(entry) == (entry.metadata.flags \div NotScannable) % 2 = 1

\* What C11 says of a scan of the entry under ticket_id that returned what
\* the step shows: rejected with IdNotScannable and the entry's scan_count
\* and last_scan_date kept when the bit is set;  when the bit is clear and
\* scan_count is below its largest value (and may_succeed), Ok with
\* scan_count one higher, every other entry and the generation unchanged.
C11_ScanOutcome(ticket_id, may_succeed) ==
    LET entry == m_entries[ticket_id] IN
    /\ IsNotScannable(entry)
          => /\ last'.res = "IdNotScannable"
             /\ ticket_id \in DOMAIN m_entries'
             /\ m_entries'[ticket_id].metadata.scan_count = entry.metadata.scan_count
             /\ m_entries'[ticket_id].metadata.last_scan_date
                    = entry.metadata.last_scan_date
    /\ (~IsNotScannable(entry) /\ entry.metadata.scan_count < MaxScanCount /\ may_succeed)
          => /\ last'.res = "Ok"
             /\ DOMAIN m_entries' = DOMAIN m_entries
             /\ m_entries'[ticket_id].metadata.scan_count
                    = entry.metadata.scan_count + 1
             /\ \A k \in DOMAIN m_entries \ {ticket_id} : m_entries'[k] = m_entries[k]
             /\ m_ticket_id_generation' = m_ticket_id_generation

\* C11 as claimed: a scan of an entry flagged not scannable fails with
\* IdNotScannable and keeps its scan_count and last_scan_date;  a scan of an
\* entry not so flagged, with scan_count below the largest value, succeeds,
\* adds one to scan_count and changes no other entry and not the generation.
C11_ScanSucceedsBelowMaximum ==
    [][ last'.op = "increment_ticket_scan_count" =>
        \A ticket_id \in DOMAIN m_entries, now \in Timestamps \cup {NoTime} :
            IncrementTicketScanCountCall(ticket_id, now)
                => C11_ScanOutcome(ticket_id, TRUE)
      ]_vars

\* C11 amended: ... succeeds when the local time can be read;  when it cannot,
\* the scan fails with UnknownFailure and changes nothing.
C11_ScanSucceedsWhenClockReads ==
    [][ last'.op = "increment_ticket_scan_count" =>
        \A ticket_id \in DOMAIN m_entries, now \in Timestamps \cup {NoTime} :
            IncrementTicketScanCountCall(ticket_id, now)
                => /\ C11_ScanOutcome(ticket_id, now # NoTime)
                   /\ (~IsNotScannable(m_entries[ticket_id]) /\ now = NoTime)
                         => /\ last'.res = "UnknownFailure"
                            /\ m_entries' = m_entries
                            /\ m_ticket_id_generation' = m_ticket_id_generation
      ]_vars

\* C11 witness: a scan was rejected with IdNotScannable in a table where
\* another entry has been scanned.
C11_RejectedNextToScannedEntry ==
    /\ last.op = "increment_ticket_scan_count"
    /\ last.res = "IdNotScannable"
    /\ \E k \in DOMAIN m_entries : m_entries[k].metadata.scan_count >= 1

\* The callbacks handed to iterate_over_entries: what each returns for each id.
Callbacks == [TicketIds -> {"Continue", "Break"}]

\* C12: whatever the order of the insertions that built the table,
\* iterate_over_entries invokes the callback on entries in strictly ascending
\* TicketID order, on each entry at most once, and on none after the callback
\* has returned Break.
C12_IterationAscendsAndStopsAtBreak ==
    \A callback \in Callbacks :
        LET iterated == iterate_over_entries(table, callback)
            visited == iterated.visited
        IN /\ iterated.res = "Ok"
           /\ \A i \in 1..Len(visited) : visited[i] \in DOMAIN m_entries
           /\ \A i \in 1..Len(visited), j \in 1..Len(visited) :
                 i < j => visited[i] < visited[j]
           /\ \A i \in 1..Len(visited) :
                 callback[visited[i]] = "Break" => i = Len(visited)

\* C12 witness: the last insertion succeeded after an entry under a higher id
\* had already been scanned, so a lower id was inserted after a higher one.
C12_LowerIdInsertedLater ==
    /\ last.op = "insert_entry_with_ticket_id"
    /\ last.res = "Ok"
    /\ Cardinality(DOMAIN m_entries) = 2
    /\ \E k \in DOMAIN m_entries :
          /\ m_entries[k].metadata.scan_count >= 1
          /\ \A j \in DOMAIN m_entries \ {k} :
                j < k /\ m_entries[j].metadata.scan_count = 0

\* -------------------------------------------------------------------- codec

\* The characters of the strings handed to transform_from_base_36: digits
\* and letters of both cases, and the characters next to each end of the
\* ranges '0'..'9', 'A'..'Z' and 'a'..'z':
\*   / 0 2 9 : @ A S T Z [ ` a s z {
CodecAlphabet ==
    {47, 48, 50, 57, 58, 64, 65, 83, 84, 90, 91, 96, 97, 115, 122, 123}

\* The strings handed to transform_from_base_36.
Texts == UNION {[1..n -> CodecAlphabet] : n \in 0..MaxLen}

\* 36^5, the upper end of the range generate_ticket_id draws from.
program_ticket_id_high_range == 36 * 36 * 36 * 36 * 36

\* The draws followed in generate_ticket_id: both ends of the range and the
\* ids at which the encoded id grows by a character.
Draws ==
    {id \in {ticket_id_low_range, 35, 36, 36 * 36 - 1, 36 * 36,
             program_ticket_id_high_range - 1, program_ticket_id_high_range} :
        id \in generate_random_unsigned(ticket_id_low_range,
                                        program_ticket_id_high_range).values}

Called(op, arg, out) == [op |-> op, arg |-> arg, out |-> out]

\* A call of transform_to_base_36<T>(value).
EncodeCall(value) ==
    /\ pure = NoCall
    /\ pure' = Called("transform_to_base_36", value,
                      [res |-> "Ok", value |-> transform_to_base_36(value)])
    /\ UNCHANGED <<m_entries, m_ticket_id_generation, tokens, last, frame>>

Encode ==
    /\ pure = NoCall
    /\ \E value \in 0..MaxDecoded : EncodeCall(value)

\* A call of transform_from_base_36<T>(text).
DecodeCall(text) ==
    /\ pure = NoCall
    /\ pure' = Called("transform_from_base_36", text,
                      transform_from_base_36(text, MaxDecoded))
    /\ UNCHANGED <<m_entries, m_ticket_id_generation, tokens, last, frame>>

Decode ==
    /\ pure = NoCall
    /\ \E text \in Texts : DecodeCall(text)

\* A call of generate_ticket_id on the table create_new returns, whose first
\* draw is ticket_id: no id is in use, so the draw is accepted.
GenerateOnNewTableCall(ticket_id) ==
    /\ pure = NoCall
    /\ DrawIsUnused(create_new, ticket_id)
    /\ pure' = Called("generate_ticket_id", <<>>,
                      [res |-> safe_unsigned_increment(create_new.generation,
                                                       MaxGeneration).res,
                       value |-> ticket_id])
    /\ UNCHANGED <<m_entries, m_ticket_id_generation, tokens, last, frame>>

GenerateOnNewTable ==
    /\ pure = NoCall
    /\ \E ticket_id \in Draws : GenerateOnNewTableCall(ticket_id)

CodecNext ==
    \/ Encode
    \/ Decode
    \/ GenerateOnNewTable

CodecSpec == Init /\ [][CodecNext]_vars

\* C13: for every x of the target width, decoding the encoding of x succeeds
\* with x, so does decoding the lowercased encoding, and 0 is encoded as "0".
C13_DecodeInvertsEncode ==
    pure.op = "transform_to_base_36" =>
        LET x == pure.arg
            text == pure.out.value
        IN /\ transform_from_base_36(text, MaxDecoded) = [res |-> "Ok", value |-> x]
           /\ transform_from_base_36(LowerName(text), MaxDecoded)
                  = [res |-> "Ok", value |-> x]
           /\ x = 0 => text = <<48>>
           /\ Len(text) >= 1

\* C13 witness: the largest value of the width was encoded, with a letter
\* among its digits.
C13_LargestValueEncoded ==
    /\ pure.op = "transform_to_base_36"
    /\ pure.arg = MaxDecoded
    /\ \E i \in 1..Len(pure.out.value) : pure.out.value[i] \in 65..90

\* Whether character is one of 0-9, A-Z, a-z.
IsBase36Digit(character) ==
    character \in 48..57 \/ character \in 65..90 \/ character \in 97..122

\* The value of a base-36 digit, and of a string of such digits, as numbers.
DigitValue(character) ==
    IF character \in 48..57 THEN character - 48
    ELSE IF character \in 65..90 THEN character - 55
    ELSE character - 87

RECURSIVE Base36Value(_)
Base36Value(text) ==
    IF text = <<>> THEN 0
    ELSE 36 * Base36Value(SubSeq(text, 1, Len(text) - 1)) + DigitValue(text[Len(text)])

\* C14: for a string of the characters 0-9, A-Z, a-z, transform_from_base_36
\* returns the base-36 value of the string when the target width holds it, and
\* fails with IntegerOverflow when it does not; never a wrapped value.
C14_DecodeIsExactOrOverflows ==
    (pure.op = "transform_from_base_36"
        /\ \A i \in 1..Len(pure.arg) : IsBase36Digit(pure.arg[i]))
    => IF Base36Value(pure.arg) <= MaxDecoded
       THEN pure.out = [res |-> "Ok", value |-> Base36Value(pure.arg)]
       ELSE pure.out.res = "IntegerOverflow"

\* C14 witness: a string whose value is one more than the width holds was
\* rejected with IntegerOverflow.
C14_OverflowByOne ==
    /\ pure.op = "transform_from_base_36"
    /\ \A i \in 1..Len(pure.arg) : IsBase36Digit(pure.arg[i])
    /\ Base36Value(pure.arg) = MaxDecoded + 1
    /\ pure.out.res = "IntegerOverflow"

\* The part of text before its first character that is no base-36 digit.
RECURSIVE DigitsBefore(_)
DigitsBefore(text) ==
    IF text = <<>> \/ ~IsBase36Digit(Head(text)) THEN <<>>
    ELSE <<Head(text)>> \o DigitsBefore(Tail(text))

\* C15 as claimed: a string with a character outside 0-9, A-Z, a-z is
\* rejected with InvalidParameter, wherever the character is and whatever
\* precedes it.
C15_BadCharacterGivesInvalidParameter ==
    (pure.op = "transform_from_base_36"
        /\ \E i \in 1..Len(pure.arg) : ~IsBase36Digit(pure.arg[i]))
    => pure.out.res = "InvalidParameter"

\* C15 amended: such a string is always rejected: with InvalidParameter when
\* the digits before its first bad character fit the target width, with
\* IntegerOverflow when they do not.
C15_BadCharacterIsRejected ==
    (pure.op = "transform_from_base_36"
        /\ \E i \in 1..Len(pure.arg) : ~IsBase36Digit(pure.arg[i]))
    => pure.out.res = IF Base36Value(DigitsBefore(pure.arg)) <= MaxDecoded
                      THEN "InvalidParameter"
                      ELSE "IntegerOverflow"

\* C15 witness: a string whose only bad character is its last, after digits
\* that fit the width, was rejected with InvalidParameter.
C15_BadCharacterLast ==
    /\ pure.op = "transform_from_base_36"
    /\ Len(pure.arg) >= 2
    /\ ~IsBase36Digit(pure.arg[Len(pure.arg)])
    /\ Len(DigitsBefore(pure.arg)) = Len(pure.arg) - 1
    /\ Base36Value(DigitsBefore(pure.arg)) \in 1..MaxDecoded
    /\ pure.out.res = "InvalidParameter"

\* C18: an id generate_ticket_id returns is encoded by transform_to_base_36
\* in at most 5 characters.
C18_GeneratedIdHasFiveCharacters ==
    (pure.op = "generate_ticket_id" /\ pure.out.res = "Ok")
        => Len(transform_to_base_36(pure.out.value)) <= 5

\* ------------------------------------------------------------- format_entry

\* The names of up to length characters over an alphabet.
NamesOver(alphabet, length) == UNION {[1..n -> alphabet] : n \in 0..length}

\* The entries handed to format_entry to exercise its field checks: every
\* grade from 8 to 13 and the grade_ids @ A F G ` a f g, with names of at most
\* one character among Z a space - 1 @ [ ` {.
FieldInputs ==
    { TableEntry(first_name, last_name, grade, grade_id, TableEntryMetadata(0, 0, "")) :
        first_name \in NamesOver({90, 97, 32, 45, 49, 64, 91, 96, 123}, 1),
        last_name \in NamesOver({90, 97, 32, 45, 49, 64, 91, 96, 123}, 1),
        grade \in (ALLOWED_GRADE_LOW - 1)..(ALLOWED_GRADE_HIGH + 1),
        grade_id \in {ALLOWED_GRADE_ID_LOW - 1, ALLOWED_GRADE_ID_LOW,
                      ALLOWED_GRADE_ID_HIGH, ALLOWED_GRADE_ID_HIGH + 1,
                      ALLOWED_GRADE_ID_LOW + 31, ALLOWED_GRADE_ID_LOW + 32,
                      ALLOWED_GRADE_ID_HIGH + 32, ALLOWED_GRADE_ID_HIGH + 33} }

\* The names handed to format_entry to exercise format_name_string: up to
\* MaxNameLen characters among a B space -.
NameInputs == NamesOver({97, 66, 32, 45}, MaxNameLen)

\* A call of Table::format_entry(entry).
FormatEntryCall(entry) ==
    /\ pure = NoCall
    /\ pure' = Called("format_entry", entry, format_entry(entry))
    /\ UNCHANGED <<m_entries, m_ticket_id_generation, tokens, last, frame>>

\* format_entry on an entry of FieldInputs.
FormatFields ==
    /\ pure = NoCall
    /\ \E entry \in FieldInputs : FormatEntryCall(entry)

\* format_entry on an entry of grade 9 'A' with a name of NameInputs as its
\* first name and "D" as its last name.
FormatFirstName ==
    /\ pure = NoCall
    /\ \E name \in NameInputs :
          FormatEntryCall(TableEntry(name, <<68>>, ALLOWED_GRADE_LOW,
                                     ALLOWED_GRADE_ID_LOW, TableEntryMetadata(0, 0, "")))

\* The same with the name as last name and "D" as first name.
FormatLastName ==
    /\ pure = NoCall
    /\ \E name \in NameInputs :
          FormatEntryCall(TableEntry(<<68>>, name, ALLOWED_GRADE_LOW,
                                     ALLOWED_GRADE_ID_LOW, TableEntryMetadata(0, 0, "")))

FormatNext ==
    \/ FormatFields
    \/ FormatFirstName
    \/ FormatLastName

FormatSpec == Init /\ [][FormatNext]_vars

IsLetter(character) == character \in 65..90 \/ character \in 97..122

IsSeparator(character) == character = 32 \/ character = 45

\* Whether name holds only letters, spaces and hyphens.
IsNameText(name) ==
    \A i \in 1..Len(name) : IsLetter(name[i]) \/ IsSeparator(name[i])

\* Whether grade is in 9..12 and the uppercased grade_id in 'A'..'F'.
HasValidFields(entry) ==
    /\ entry.grade \in 9..12
    /\ (IF entry.grade_id \in 97..122 THEN entry.grade_id - 32
        ELSE entry.grade_id) \in 65..70

HasValidNames(entry) == IsNameText(entry.first_name) /\ IsNameText(entry.last_name)

\* What C16 says of a successful format_entry: it succeeds exactly on valid
\* fields and names, keeps grade and leaves the uppercase grade_id.
C16_SuccessIsAsClaimed ==
    /\ pure.out.res = "Ok" <=> (HasValidFields(pure.arg) /\ HasValidNames(pure.arg))
    /\ pure.out.res = "Ok"
          => /\ pure.out.entry.grade = pure.arg.grade
             /\ pure.out.entry.grade_id \in 65..70
             /\ pure.out.entry.grade_id \in {pure.arg.grade_id, pure.arg.grade_id - 32}

\* C16 as claimed: format_entry on an entry with a valid tag succeeds exactly
\* when grade is in 9..12, the uppercased grade_id is in 'A'..'F' and both
\* names hold only letters, spaces and hyphens;  it fails with
\* InvalidEntryField for a grade or grade_id out of range and with
\* InvalidString for a name with another character;  on success grade is kept
\* and grade_id is uppercased.
C16_EachFaultGivesItsOwnError ==
    (pure.op = "format_entry" /\ ~is_corrupted(pure.arg))
    => /\ C16_SuccessIsAsClaimed
       /\ ~HasValidFields(pure.arg) => pure.out.res = "InvalidEntryField"
       /\ ~HasValidNames(pure.arg) => pure.out.res = "InvalidString"

\* C16 amended: ... it fails with InvalidEntryField for a grade or grade_id
\* out of range, and with InvalidString for a name with another character
\* when grade and grade_id are in range.
C16_FieldsAreCheckedBeforeNames ==
    (pure.op = "format_entry" /\ ~is_corrupted(pure.arg))
    => /\ C16_SuccessIsAsClaimed
       /\ ~HasValidFields(pure.arg) => pure.out.res = "InvalidEntryField"
       /\ (HasValidFields(pure.arg) /\ ~HasValidNames(pure.arg))
             => pure.out.res = "InvalidString"

\* C16 witness: an entry with grade_id 'a' was accepted and left with 'A'.
C16_LowercaseGradeIdAccepted ==
    /\ pure.op = "format_entry"
    /\ pure.out.res = "Ok"
    /\ pure.arg.grade_id = 97
    /\ pure.out.entry.grade_id = 65

\* Whether name has no two adjacent separators, neither begins nor ends with
\* one, and has an uppercase letter exactly where a letter follows the start
\* or a separator, every other letter being lowercase.
IsCanonicalName(name) ==
    /\ \A i \in 1..(Len(name) - 1) : ~(IsSeparator(name[i]) /\ IsSeparator(name[i + 1]))
    /\ name # <<>> => ~IsSeparator(name[1]) /\ ~IsSeparator(name[Len(name)])
    /\ \A i \in 1..Len(name) :
          IsLetter(name[i])
             => (name[i] \in 65..90 <=> (i = 1 \/ IsSeparator(name[i - 1])))

\* C17: the names format_entry leaves for names of letters, spaces and
\* hyphens are canonical.
C17_FormattedNamesAreCanonical ==
    ( /\ pure.op = "format_entry"
      /\ IsNameText(pure.arg.first_name)
      /\ IsNameText(pure.arg.last_name)
      /\ pure.out.res = "Ok" )
    => /\ IsCanonicalName(pure.out.entry.first_name)
       /\ IsCanonicalName(pure.out.entry.last_name)

\* --------------------------------------------------------- create_from_file

\* An entry as a document lists it, never scanned.
Listed(ticket_id, first_name, last_name, grade, grade_id) ==
    [ticket_id |-> ticket_id, first_name |-> first_name, last_name |-> last_name,
     grade |-> grade, grade_id |-> grade_id,
     metadata |-> [flags |-> 0, scan_count |-> 0, last_scan_date |-> "N/A"]]

\* The entries documents list:
\*   "1": An D 12 F;  "2": Jo D 9 A;  "01": Bo D 9 A (the id of "1" again);
\*   "2": j1 D 9 A (a name format_entry rejects);
\*   "3": An D 12 F (the person of "1" again);  "/": Cy D 9 A (no base-36 id).
ListedEntries ==
    { Listed(<<49>>, <<65, 110>>, <<68>>, 12, 70),
      Listed(<<50>>, <<74, 111>>, <<68>>, 9, 65),
      Listed(<<48, 49>>, <<66, 111>>, <<68>>, 9, 65),
      Listed(<<50>>, <<106, 49>>, <<68>>, 9, 65),
      Listed(<<51>>, <<65, 110>>, <<68>>, 12, 70),
      Listed(<<47>>, <<67, 121>>, <<68>>, 9, 65) }

\* The documents handed to create_from_file: up to MaxListed listed entries
\* and any declared count up to one more.
Documents ==
    { [info |-> [name |-> "CNGC-BB-2024", tickets |-> tickets], entries |-> entries] :
        tickets \in 0..(MaxListed + 1),
        entries \in UNION {[1..n -> ListedEntries] : n \in 0..MaxListed} }

\* A call of Table::create_from_file on a file holding document.
CreateFromFileCall(document, can_open) ==
    /\ pure = NoCall
    /\ pure' = Called("create_from_file",
                      [document |-> document, can_open |-> can_open],
                      create_from_file(document, can_open))
    /\ UNCHANGED <<m_entries, m_ticket_id_generation, tokens, last, frame>>

CreateFromFile ==
    /\ pure = NoCall
    /\ \E document \in Documents, can_open \in BOOLEAN :
          CreateFromFileCall(document, can_open)

\* The grade values documents list for "2": Jo D: the allowed grades, their
\* neighbours, and values above 255, which do not fit the u8 field grade.
GradeValues ==
    {0, 8, 9, 12, 13, 255, 256, 264, 265, 268, 269, 2147483647}

\* Documents that list Jo D with a grade of GradeValues, alone or next to
\* An D 12 F, with the number of listed entries as info.tickets.
GradedDocuments ==
    { [info |-> [name |-> "CNGC-BB-2024", tickets |-> Len(entries)],
       entries |-> entries] :
        entries \in
          UNION { { <<Listed(<<50>>, <<74, 111>>, <<68>>, grade, 65)>>,
                    <<Listed(<<49>>, <<65, 110>>, <<68>>, 12, 70),
                      Listed(<<50>>, <<74, 111>>, <<68>>, grade, 65)>>,
                    <<Listed(<<50>>, <<74, 111>>, <<68>>, grade, 65),
                      Listed(<<49>>, <<65, 110>>, <<68>>, 12, 70)>> } :
                  grade \in GradeValues } }

CreateFromGradedFile ==
    /\ pure = NoCall
    /\ \E document \in GradedDocuments : CreateFromFileCall(document, TRUE)

LoadNext ==
    \/ CreateFromFile
    \/ CreateFromGradedFile

LoadSpec == Init /\ [][LoadNext]_vars

\* Whether every entry a document lists loads: its id decodes and
\* insert_entry_with_ticket_id accepts it after the entries listed before it.
EveryListedEntryLoads(document) ==
    LoadLoop(create_new, document.entries).res = "Ok"

\* C19: every key of the entries map is an id of the range generate_ticket_id
\* draws from; the invalid id 0 is never a key.
C19_KeysAreTicketIds ==
    /\ invalid_ticket_id \notin DOMAIN m_entries
    /\ DOMAIN m_entries \subseteq DrawnIds

\* C20 as claimed: create_from_file fails with CorruptedTable on a document
\* whose info.tickets differs from the number of entries it lists, and
\* succeeds, with that number as entry_count, when every listed entry loads
\* and the two numbers are equal.
C20_CountMismatchGivesCorruptedTable ==
    (pure.op = "create_from_file" /\ pure.arg.can_open)
    => LET document == pure.arg.document
           listed == Len(document.entries)
       IN /\ document.info.tickets # listed => pure.out.res = "CorruptedTable"
          /\ (EveryListedEntryLoads(document) /\ document.info.tickets = listed)
                => /\ pure.out.res = "Ok"
                   /\ entry_count(pure.out.table) = listed

\* C20 amended: on such a document create_from_file fails: with CorruptedTable
\* when every listed entry loads, with the error of the first listed entry
\* that does not load otherwise.
C20_CountMismatchFailsTheLoad ==
    (pure.op = "create_from_file" /\ pure.arg.can_open)
    => LET document == pure.arg.document
           listed == Len(document.entries)
       IN /\ document.info.tickets # listed
                => /\ pure.out.res # "Ok"
                   /\ pure.out.res = IF EveryListedEntryLoads(document)
                                     THEN "CorruptedTable"
                                     ELSE LoadLoop(create_new, document.entries).res
          /\ (EveryListedEntryLoads(document) /\ document.info.tickets = listed)
                => /\ pure.out.res = "Ok"
                   /\ entry_count(pure.out.table) = listed

\* C20 witness: a document listing MaxListed entries that all load, with
\* another number as info.tickets, was rejected with CorruptedTable.
C20_LoadedButMiscounted ==
    /\ pure.op = "create_from_file"
    /\ pure.arg.can_open
    /\ Len(pure.arg.document.entries) = MaxListed
    /\ EveryListedEntryLoads(pure.arg.document)
    /\ pure.arg.document.info.tickets # MaxListed
    /\ pure.out.res = "CorruptedTable"

\* ------------------------------------------------------- removal and tokens

\* C21: remove_ticket(id) with id not a key returns IdNotFound and leaves the
\* entries and the generation as they were; with id the key of an entry whose
\* tag is table_entry_tag it returns Ok, the keys afterwards are the keys
\* before without id, entry_count is one less, get_entry(id) returns
\* IdNotFound, and every other entry is stored as before.
C21_RemoveTicketRemovesExactlyOneEntry ==
    [][ last'.op = "remove_ticket" =>
        \A ticket_id \in TicketIds :
          RemoveTicketCall(ticket_id) =>
            LET after == Table(m_entries', m_ticket_id_generation') IN
            IF ticket_id \notin DOMAIN m_entries
            THEN /\ last'.res = "IdNotFound"
                 /\ after = table
            ELSE ~is_corrupted(m_entries[ticket_id]) =>
                 /\ last'.res = "Ok"
                 /\ DOMAIN m_entries' = DOMAIN m_entries \ {ticket_id}
                 /\ entry_count(after) = entry_count(table) - 1
                 /\ get_entry(after, ticket_id).res = "IdNotFound"
                 /\ \A other \in DOMAIN m_entries \ {ticket_id} :
                       m_entries'[other] = m_entries[other]
      ]_vars

\* C21 happens: a remove_ticket has succeeded and left another entry, with a
\* lower key, in the table.
C21_RemovedNextToAnEntry ==
    /\ last.op = "remove_ticket"
    /\ last.res = "Ok"
    /\ invalid_ticket_id \in DOMAIN m_entries
    /\ \E ticket_id \in TicketIds : ticket_id \notin DOMAIN m_entries

\* The held tokens that has_generated_ticket_id_expired reports as not
\* expired on table t.
LiveTokens(t) ==
    {g \in tokens : has_generated_ticket_id_expired(t, Generated(g))
                        = [res |-> "Ok", value |-> FALSE]}

\* C23: no remove_ticket call, successful or failed, changes
\* m_ticket_id_generation, and every token returned by generate_ticket_id
\* that has_generated_ticket_id_expired reports as not expired before a
\* remove_ticket call is reported as not expired after it; so it is after
\* any number of remove_ticket calls with no other call in between.
C23_RemoveTicketIsExemptFromTheBump ==
    [][ last'.op = "remove_ticket" =>
        /\ m_ticket_id_generation' = m_ticket_id_generation
        /\ LiveTokens(Table(m_entries', m_ticket_id_generation'))
              = LiveTokens(table)
      ]_vars

\* C23 happens: a remove_ticket has just erased an entry while the caller
\* holds a token that is not expired.
C23_RemovedWhileHoldingToken ==
    /\ last.op = "remove_ticket"
    /\ last.res = "Ok"
    /\ LiveTokens(table) # {}

\* C26: a token returned by generate_ticket_id on this table that
\* has_generated_ticket_id_expired reports as not expired has an id that is
\* not a key of m_entries, and no insert_entry_with_ticket_id call made with
\* a returned token fails with IdAlreadyExists.
C26_LiveTokenIdIsFree ==
    /\ \A g \in tokens :
          has_generated_ticket_id_expired(table, Generated(g))
              = [res |-> "Ok", value |-> FALSE]
          => g.id \notin DOMAIN m_entries
    /\ last.op = "insert_entry_with_generated_ticket_id"
          => last.res # "IdAlreadyExists"

\* C26 happens: an insertion with a returned token has failed for another
\* reason, and the caller still holds a token that is not expired while the
\* table has entries.
C26_LiveTokenOverNonEmptyTable ==
    /\ last.op = "insert_entry_with_generated_ticket_id"
    /\ last.res \notin {"Ok", "IdExpired"}
    /\ m_entries # <<>>
    /\ \E g \in tokens :
          has_generated_ticket_id_expired(table, Generated(g))
              = [res |-> "Ok", value |-> FALSE]

\* C28: an insert_entry call that returns an error leaves m_entries and
\* m_ticket_id_generation as they were before the call, so every token that
\* was not expired before the call is not expired after it.
C28_FailedInsertEntryChangesNothing ==
    [][ (last'.op = "insert_entry" /\ last'.res # "Ok") =>
        /\ m_entries' = m_entries
        /\ m_ticket_id_generation' = m_ticket_id_generation
        /\ \A g \in tokens :
              has_generated_ticket_id_expired(table, Generated(g)).value
                = has_generated_ticket_id_expired(
                      Table(m_entries', m_ticket_id_generation'), Generated(g)).value
      ]_vars

\* ------------------------------------ generate_ticket_id, step by step

\* The loop condition with <= for <.
LoopContinuesOnceMore(f) ==
    ~f.ticket_was_generated /\ f.try_counter <= MaxTries

\* The condition of the for loop of generate_ticket_id.
LoopContinues(f) ==
    ~f.ticket_was_generated /\ f.try_counter < MaxTries

\* The caller fills the table by insertions that succeed, before it calls
\* generate_ticket_id.
Populate ==
    /\ ~frame.running
    /\ last.op # "generate_ticket_id"
    /\ \E ticket_id \in invalid_ticket_id..MaxDrawnId, entry \in Candidates :
          /\ insert_entry_with_ticket_id(table, ticket_id, entry).res = "Ok"
          /\ InsertEntryWithTicketIdCall(ticket_id, entry)

\* generate_ticket_id is entered: its locals are initialised.
EnterGenerateTicketId ==
    /\ ~frame.running
    /\ last.op # "generate_ticket_id"
    /\ frame' = [NoFrame EXCEPT !.running = TRUE]
    /\ UNCHANGED <<m_entries, m_ticket_id_generation, tokens, last, pure>>

\* One iteration of the for loop: a draw, the lookup of the draw in
\* m_entries, ++try_counter.
DrawTicketId ==
    /\ frame.running
    /\ LoopContinues(frame)
    /\ LET draw == generate_random_unsigned(ticket_id_low_range, MaxDrawnId) IN
       IF draw.res # "Ok"
       THEN /\ frame' = [frame EXCEPT !.running = FALSE]
            /\ last' = Returned("generate_ticket_id", draw.res, invalid_ticket_id)
       ELSE /\ \E ticket_id \in draw.values :
                  frame' = [frame EXCEPT
                               !.ticket_id = ticket_id,
                               !.ticket_was_generated = DrawIsUnused(table, ticket_id),
                               !.try_counter = @ + 1,
                               !.collisions = IF DrawIsUnused(table, ticket_id)
                                              THEN @ ELSE @ + 1]
            /\ UNCHANGED last
    /\ UNCHANGED <<m_entries, m_ticket_id_generation, tokens, pure>>

\* The statements after the loop: IdGenerationFailed, or the increment of
\* the generation and the return of the GeneratedTicketID.
ReturnFromGenerateTicketId ==
    /\ frame.running
    /\ ~LoopContinues(frame)
    /\ LET inc == safe_unsigned_increment(m_ticket_id_generation, MaxGeneration)
           out == IF ~frame.ticket_was_generated
                  THEN [res |-> "IdGenerationFailed", table |-> table, token |-> NoToken]
                  ELSE IF inc.res # "Ok"
                  THEN [res |-> inc.res, table |-> table, token |-> NoToken]
                  ELSE [res |-> "Ok", table |-> Table(m_entries, inc.value),
                        token |-> [id |-> frame.ticket_id, generation |-> inc.value]]
       IN /\ m_entries' = out.table.entries
          /\ m_ticket_id_generation' = out.table.generation
          /\ tokens' = IF out.res = "Ok"
                       THEN {g \in Noted("generate") :
                                \A h \in tokens : h.generation <= g.generation}
                            \cup {[id |-> out.token.id,
                                   generation |-> out.token.generation,
                                   since |-> {}, used |-> FALSE]}
                       ELSE tokens
          /\ last' = Returned("generate_ticket_id", out.res, out.token.id)
    /\ frame' = [frame EXCEPT !.running = FALSE]
    /\ UNCHANGED pure

GenerateNext ==
    \/ Populate
    \/ EnterGenerateTicketId
    \/ DrawTicketId
    \/ ReturnFromGenerateTicketId

\* A call that has been entered executes its next statement.
GenerateSpec ==
    /\ Init
    /\ [][GenerateNext]_vars
    /\ WF_vars(DrawTicketId)
    /\ WF_vars(ReturnFromGenerateTicketId)

\* The generate_ticket_id call has returned.
GenerateReturned == last.op = "generate_ticket_id" /\ ~frame.running

\* What holds of the locals of generate_ticket_id and of its result: at most
\* MaxTries draws are made; the result is IdGenerationFailed exactly when
\* MaxTries draws were made and every one of them was a key of m_entries;
\* that is the result whenever every id of the range is a key.
C25_DrawsAndResult ==
    /\ frame.try_counter <= MaxTries
    /\ frame.collisions <= frame.try_counter
    /\ GenerateReturned =>
          /\ last.res = "IdGenerationFailed"
                <=> (frame.try_counter = MaxTries /\ frame.collisions = MaxTries)
          /\ ticket_id_low_range..MaxDrawnId \subseteq DOMAIN m_entries
                => last.res = "IdGenerationFailed"

\* A generate_ticket_id that returns IdGenerationFailed leaves m_entries and
\* m_ticket_id_generation as they were.
C25_FailureChangesNothing ==
    (frame.running /\ ~frame'.running /\ last'.res = "IdGenerationFailed")
        => /\ m_entries' = m_entries
           /\ m_ticket_id_generation' = m_ticket_id_generation

\* C25: generate_ticket_id makes at most 512 draws and every call of it
\* returns; it returns IdGenerationFailed exactly when all 512 draws were
\* keys of m_entries, which is every call when all ids of the range are
\* keys, and then it changes neither m_entries nor m_ticket_id_generation.
C25_GenerateTicketIdIsBounded ==
    /\ []C25_DrawsAndResult
    /\ [][C25_FailureChangesNothing]_vars
    /\ (frame.running ~> GenerateReturned)

\* C25 happens: a call has returned IdGenerationFailed after 512 draws that
\* were all in use, although an id of the range is not a key.
C25_UnluckyWithFreeId ==
    /\ GenerateReturned
    /\ last.res = "IdGenerationFailed"
    /\ frame.try_counter = MaxTries
    /\ \E ticket_id \in ticket_id_low_range..MaxDrawnId :
          ticket_id \notin DOMAIN m_entries

\* ------------------------------------------------- format_entry, repeated

\* C27: for every entry on which format_entry succeeds, format_entry applied
\* to the entry it left succeeds again and leaves every field as it is.
C27_FormatEntryIsIdempotent ==
    (pure.op = "format_entry" /\ pure.out.res = "Ok")
        => format_entry(pure.out.entry) = [res |-> "Ok", entry |-> pure.out.entry]

\* ----------------------------------------------- create_from_file, grades

\* Whether a listed entry's grade is one format_entry allows.
HasAllowedGrade(listed) ==
    listed.grade \in ALLOWED_GRADE_LOW..ALLOWED_GRADE_HIGH

\* The document with every grade that is not allowed replaced by one that is.
WithAllowedGrades(document) ==
    [document EXCEPT !.entries =
        [i \in DOMAIN @ |-> IF HasAllowedGrade(@[i]) THEN @[i]
                            ELSE [@[i] EXCEPT !.grade = ALLOWED_GRADE_LOW]]]

\* C24: create_from_file on a document that lists an entry with a grade
\* outside [9, 12], and that loads when that grade is replaced by an allowed
\* one, fails with InvalidEntryField.
C24_GradeOutOfRangeFailsTheLoad ==
    ( /\ pure.op = "create_from_file"
      /\ pure.arg.can_open
      /\ \E i \in DOMAIN pure.arg.document.entries :
            ~HasAllowedGrade(pure.arg.document.entries[i])
      /\ create_from_file(WithAllowedGrades(pure.arg.document), TRUE).res = "Ok" )
    => pure.out.res = "InvalidEntryField"

\* ------------------------------------------------------ corrupted entries

\* The values a caller writes to _entry_tag that are not table_entry_tag.
OtherTags == {0}

\* A caller writes tag to the public field _entry_tag of the entry stored
\* under ticket_id, through the reference get_entry returns.
WriteEntryTagCall(ticket_id, tag) ==
    LET got == get_entry(table, ticket_id) IN
    /\ got.res = "Ok"
    /\ m_entries' = [m_entries EXCEPT ![ticket_id].entry_tag = tag]
    /\ last' = Returned("get_entry", got.res, invalid_ticket_id)
    /\ UNCHANGED <<m_ticket_id_generation, tokens, pure, frame>>

WriteEntryTag ==
    \E ticket_id \in TicketIds, tag \in OtherTags :
        WriteEntryTagCall(ticket_id, tag)

CorruptionNext ==
    \/ InsertEntryWithTicketId
    \/ WriteEntryTag
    \/ RemoveTicket
    \/ SaveToFile

CorruptionSpec == Init /\ [][CorruptionNext]_vars

\* The keys of m_entries whose entry has a tag other than table_entry_tag.
CorruptedIds == {k \in DOMAIN m_entries : is_corrupted(m_entries[k])}

\* The names find_ticket_id_by_name is asked for.
SearchedNames == {<<74, 111>>, <<65, 110>>, <<68>>}

\* What the calls that address a corrupted entry, or search or save the
\* table that holds one, return.
C22_DirectCallsSurfaceCorruption ==
    \A k \in CorruptedIds :
        /\ get_entry(table, k).res = "CorruptedTableEntry"
        /\ remove_ticket(table, k) = [res |-> "CorruptedTableEntry", table |-> table]
        /\ \A first_name, last_name \in SearchedNames :
              find_ticket_id_by_name(table, first_name, last_name).res
                  = "CorruptedTable"
        /\ \A can_open \in BOOLEAN :
              save_to_file(table, can_open)
                  = [res |-> "CorruptedTable", document |-> NoDocument]

\* No call removes or rewrites an entry whose tag is not table_entry_tag.
C22_CorruptedEntryStays ==
    \A k \in CorruptedIds :
        /\ k \in DOMAIN m_entries'
        /\ m_entries'[k] = m_entries[k]

\* C22 as claimed: while an entry with an invalid tag is stored under k,
\* get_entry(k) and remove_ticket(k) return CorruptedTableEntry and leave the
\* entry stored, and iterate_over_entries, whatever its callback returns,
\* find_ticket_id_by_name and save_to_file return CorruptedTable, save_to_file
\* with no document written.
C22_CorruptionFailsEveryCall ==
    /\ [](/\ C22_DirectCallsSurfaceCorruption
          /\ CorruptedIds # {} =>
                \A callback \in Callbacks :
                    iterate_over_entries(table, callback).res = "CorruptedTable")
    /\ [][C22_CorruptedEntryStays]_vars

\* C22 amended: the same, with iterate_over_entries returning CorruptedTable
\* when its callback returns Continue for every entry stored under a key
\* below the lowest corrupted one, and returning Ok, with no entry at or
\* above that key visited, when the callback returns Break for one of them.
C22_CorruptionFailsEveryCallThatReachesIt ==
    /\ [](/\ C22_DirectCallsSurfaceCorruption
          /\ CorruptedIds # {} =>
                LET lowest == CHOOSE k \in CorruptedIds :
                                  \A other \in CorruptedIds : k <= other
                    before == {k \in DOMAIN m_entries : k < lowest}
                IN \A callback \in Callbacks :
                      LET visit == iterate_over_entries(table, callback) IN
                      IF \A k \in before : callback[k] = "Continue"
                      THEN visit.res = "CorruptedTable"
                      ELSE /\ visit.res = "Ok"
                           /\ \A i \in 1..Len(visit.visited) :
                                 visit.visited[i] < lowest)
    /\ [][C22_CorruptedEntryStays]_vars

\* C22 happens: remove_ticket has just returned CorruptedTableEntry for an
\* entry that is stored above an entry with a valid tag.
C22_CorruptedAboveValidEntry ==
    /\ last.op = "remove_ticket"
    /\ last.res = "CorruptedTableEntry"
    /\ \E k \in CorruptedIds :
          \E lower \in DOMAIN m_entries \ CorruptedIds : lower < k

\* ------------------------------------------------------------ subcommands

\* safe_truncate_unsigned<T>(value), T holding values up to max_value.
safe_truncate_unsigned(value, max_value) ==
    IF value > max_value THEN [res |-> "IntegerOverflow", value |-> 0]
    ELSE [res |-> "Ok", value |-> value]

\* The TableEntry subcommand_emit and subcommand_change build from their
\* arguments: a default-constructed entry with the four fields assigned.
EntryFromArguments(last_name, first_name, grade, grade_id) ==
    [NoEntry EXCEPT !.first_name = first_name, !.last_name = last_name,
                    !.grade = grade, !.grade_id = grade_id]

\* subcommand_change on table t.
subcommand_change(t, ticket_id_as_string, new_grade, new_last_name, new_first_name, new_grade_id) ==
    LET decoded == transform_from_base_36(ticket_id_as_string, MaxDecoded) IN
    IF decoded.res # "Ok" THEN [res |-> decoded.res, table |-> t]
    ELSE LET got == get_entry(t, decoded.value) IN
    IF got.res # "Ok" THEN [res |-> got.res, table |-> t]
    ELSE IF new_grade < 0 THEN [res |-> "InvalidParameter", table |-> t]
    ELSE IF Len(new_grade_id) # 1 THEN [res |-> "InvalidParameter", table |-> t]
    ELSE LET truncated == safe_truncate_unsigned(new_grade, 255) IN
    IF truncated.res # "Ok" THEN [res |-> truncated.res, table |-> t]
    ELSE LET formatted == format_entry(EntryFromArguments(
                              new_last_name, new_first_name, truncated.value,
                              new_grade_id[1]))
         IN IF formatted.res # "Ok" THEN [res |-> formatted.res, table |-> t]
            ELSE [res |-> "Continue",
                  table |-> Table([t.entries EXCEPT ![decoded.value] = formatted.entry],
                                  t.generation)]

\* subcommand_scan on table t at local time now.
subcommand_scan(t, ticket_id_string, now) ==
    LET decoded == transform_from_base_36(ticket_id_string, MaxDecoded) IN
    IF decoded.res # "Ok" THEN [res |-> decoded.res, table |-> t]
    ELSE LET got == get_entry(t, decoded.value) IN
    IF got.res = "IdNotFound" THEN [res |-> "Continue", table |-> t]
    ELSE IF got.res # "Ok" THEN [res |-> got.res, table |-> t]
    ELSE LET scanned == increment_ticket_scan_count(t, decoded.value, now) IN
         IF scanned.res # "Ok" THEN scanned
         ELSE [res |-> "Continue", table |-> scanned.table]

\* subcommand_emit on table t: the set of its possible outcomes.
subcommand_emit(t, grade, last_name, first_name, grade_id) ==
    IF grade < 0 THEN {[res |-> "InvalidParameter", table |-> t]}
    ELSE IF Len(grade_id) # 1 THEN {[res |-> "InvalidParameter", table |-> t]}
    ELSE LET truncated == safe_truncate_unsigned(grade, 255) IN
    IF truncated.res # "Ok" THEN {[res |-> truncated.res, table |-> t]}
    ELSE { IF inserted.res # "Ok"
           THEN [res |-> inserted.res, table |-> inserted.table]
           ELSE [res |-> get_entry(inserted.table, inserted.id).res,
                 table |-> inserted.table]
           : inserted \in insert_entry(
                 t, EntryFromArguments(last_name, first_name, truncated.value,
                                       grade_id[Len(grade_id)])) }

\* The ticket ids typed at the prompt: "1", "2", "3" and "/".
TicketIdStrings == {<<49>>, <<50>>, <<51>>, <<47>>}

\* The grade, last name, first name and grade id typed at the prompt:
\*   12 "D" "An" "F";  9 "d" "jo" "a";  9 "D" "j1" "A";
\*   -1 "D" "An" "F";  256 "D" "An" "F";  12 "D" "An" "FF".
PersonArguments ==
    { <<12, <<68>>, <<65, 110>>, <<70>>>>,
      <<9, <<100>>, <<106, 111>>, <<97>>>>,
      <<9, <<68>>, <<106, 49>>, <<65>>>>,
      <<-1, <<68>>, <<65, 110>>, <<70>>>>,
      <<256, <<68>>, <<65, 110>>, <<70>>>>,
      <<12, <<68>>, <<65, 110>>, <<70, 70>>>> }

\* The program has a table: it was started with the create primary command,
\* or with the open one and the file loaded.
HasTable == last.op = "primary_command_open_database" => last.res = "Ok"

\* primary_command_open_database on a file holding document, when the
\* program starts.
PrimaryCommandOpenDatabase ==
    /\ last.op = "create_new"
    /\ \E document \in Documents :
          LET out == create_from_file(document, TRUE) IN
          /\ m_entries' = IF out.res = "Ok" THEN out.table.entries ELSE m_entries
          /\ m_ticket_id_generation' = IF out.res = "Ok" THEN out.table.generation
                                       ELSE m_ticket_id_generation
          /\ last' = Returned("primary_command_open_database", out.res,
                              invalid_ticket_id)
    /\ UNCHANGED <<tokens, pure, frame>>

SubcommandEmit ==
    /\ HasTable
    /\ \E person \in PersonArguments :
          \E out \in subcommand_emit(table, person[1], person[2], person[3], person[4]) :
             /\ m_entries' = out.table.entries
             /\ m_ticket_id_generation' = out.table.generation
             /\ last' = Returned("subcommand_emit", out.res, invalid_ticket_id)
    /\ UNCHANGED <<tokens, pure, frame>>

SubcommandScan ==
    /\ HasTable
    /\ \E ticket_id_string \in TicketIdStrings, now \in Timestamps \cup {NoTime} :
          LET out == subcommand_scan(table, ticket_id_string, now) IN
          /\ m_entries' = out.table.entries
          /\ m_ticket_id_generation' = out.table.generation
          /\ last' = Returned("subcommand_scan", out.res, invalid_ticket_id)
    /\ UNCHANGED <<tokens, pure, frame>>

SubcommandChange ==
    /\ HasTable
    /\ \E ticket_id_as_string \in TicketIdStrings, person \in PersonArguments :
          LET out == subcommand_change(table, ticket_id_as_string, person[1],
                                       person[2], person[3], person[4])
          IN /\ m_entries' = out.table.entries
             /\ m_ticket_id_generation' = out.table.generation
             /\ last' = Returned("subcommand_change", out.res, invalid_ticket_id)
    /\ UNCHANGED <<tokens, pure, frame>>

CommandNext ==
    \/ PrimaryCommandOpenDatabase
    \/ SubcommandEmit
    \/ SubcommandScan
    \/ SubcommandChange

CommandSpec == Init /\ [][CommandNext]_vars

\* No two entries stored under different ids have equal grade, grade_id,
\* last_name and first_name.
NoTwoShareIdentity(entries) ==
    \A a, b \in DOMAIN entries :
        a # b => ~SameIdentity(entries[a], entries[b])

\* C29: the change subcommand run on a table in which no two entries under
\* different ids have equal (grade, grade_id, last_name, first_name) leaves
\* such a table: a change that would make the addressed entry equal to
\* another entry is rejected.
C29_ChangeKeepsEntriesDistinct ==
    [][ (last'.op = "subcommand_change" /\ NoTwoShareIdentity(m_entries))
            => NoTwoShareIdentity(m_entries')
      ]_vars

\* C30: the change subcommand leaves the keys of m_entries and the metadata
\* (flags, scan_count, last_scan_date) of every entry as they were, and
\* changes at most one entry; an entry with scan_count above 0 before a
\* change has scan_count above 0 after it.
C30_ChangeKeepsMetadata ==
    [][ last'.op = "subcommand_change" =>
        /\ DOMAIN m_entries' = DOMAIN m_entries
        /\ \A k \in DOMAIN m_entries :
              /\ m_entries'[k].metadata = m_entries[k].metadata
              /\ m_entries[k].metadata.scan_count > 0
                    => m_entries'[k].metadata.scan_count > 0
        /\ Cardinality({k \in DOMAIN m_entries : m_entries'[k] # m_entries[k]}) <= 1
      ]_vars

====
